---------------------------- MODULE Spec2Model ----------------------------
(***************************************************************************)
(* Bridge commitments of the RPC core (rpc/core/bridge_commitments.go):    *)
(* range validation, the abi.encode-compatible leaf encoding, the Merkle   *)
(* root over a range of blocks and the two-layer inclusion proof.          *)
(*                                                                         *)
(* Byte strings are sequences of bytes.  A plain byte b is the 1-tuple     *)
(* <<b>>.  The 256-bit hash is taken as collision free: the digest of a    *)
(* byte string p is a sequence of Size symbolic bytes <<i, p'>> that no    *)
(* plain byte equals; the first of them carries the preimage.              *)
(***************************************************************************)
EXTENDS Integers, Sequences, FiniteSets, TLC

VARIABLES
    storeHeight,        \* env.BlockStore.Height()
    blocks,             \* env.BlockStore: height -> Header.LastResultsHash
    finalizeResponses,  \* env.StateStore: height -> TxResults
    req,                \* the request being served last
    resp,               \* what the request returned
    calls,              \* the store reads the request made, in order
    served,             \* the first commitment a client was given
    myTurnToSend,       \* Reactor.myTurnToSend
    lastReceive,        \* Reactor.lastReceive
    peers,              \* peer -> whether it was added, runs or was stopped
    routines,           \* peer -> where its broadcastBlobRoutine stands
    clock,              \* time.Now(), counted in blobs received
    lastWrite,          \* the last write of myTurnToSend: by whom, over what
    sends,              \* the blobs sent since the node started
    event               \* the message received or the send tried in the last step

bridgeVars == <<storeHeight, blocks, finalizeResponses, req, resp, calls, served>>

reactorVars == <<myTurnToSend, lastReceive, peers, routines, clock, lastWrite,
                 sends, event>>

vars == <<bridgeVars, reactorVars>>

-----------------------------------------------------------------------------
(* Bounds of the model. *)

MaxHeight == 3          \* the chain grows up to this height
MaxTxs == 3             \* transactions per block
MaxLeaves == 5          \* items of a tree built on its own
MaxReceives == 2        \* blobs with data the reactor receives

(* No commitment has been given to the client yet. *)
NotServed == [start |-> 0, end |-> 0, root |-> <<>>, chainHeight |-> 0,
              interleaved |-> FALSE]

(* The peers of the blob reactor. *)
Peers == {"p1", "p2"}

(* The last step of the blob reactor was neither a message nor a send. *)
NoEvent == [kind |-> "none", peer |-> "none", type |-> "none", len |-> 0,
            success |-> FALSE]

(* The blob reactor before NewReactor: no peer, no routine. *)
ReactorNotStarted ==
    /\ myTurnToSend = FALSE
    /\ lastReceive = 0
    /\ peers = [p \in Peers |-> "none"]
    /\ routines = [p \in Peers |-> [pc |-> "none", observed |-> 0]]
    /\ clock = 0
    /\ lastWrite = [by |-> "none", old |-> FALSE]
    /\ sends = <<>>
    /\ event = NoEvent

-----------------------------------------------------------------------------
(* Program constants. *)

BridgeCommitmentBlocksLimit == 1000
Size == 32              \* tmhash.Size, the digest length in bytes

-----------------------------------------------------------------------------
(* Bytes. *)

B(n) == <<n>>

Bytes(ns) == [i \in 1..Len(ns) |-> B(ns[i])]

Zeros(n) == [i \in 1..n |-> B(0)]

(* The hash function of crypto/tmhash, collision free. *)
Sum(pre) == [i \in 1..Size |-> IF i = 1 THEN <<i, pre>> ELSE <<i, <<>>>>]

-----------------------------------------------------------------------------
(* The Merkle tree of crypto/merkle (RFC 6962 shape), used through         *)
(* merkle.HashFromByteSlices, merkle.ProofsFromByteSlices and Proof.Verify. *)

leafHash(leaf) == Sum(<<B(0)>> \o leaf)

innerHash(left, right) == Sum(<<B(1)>> \o left \o right)

RECURSIVE SplitFrom(_, _)
SplitFrom(k, n) == IF 2 * k < n THEN SplitFrom(2 * k, n) ELSE k

(* The tree split in the middle. *)
getSplitPointHalf(n) == n \div 2

(* The largest power of two strictly less than n, for n >= 2. *)
getSplitPoint(n) == SplitFrom(1, n)

RECURSIVE HashFromByteSlices(_)
HashFromByteSlices(items) ==
    IF Len(items) = 0 THEN Sum(<<>>)
    ELSE IF Len(items) = 1 THEN leafHash(items[1])
    ELSE LET k == getSplitPoint(Len(items))
         IN  innerHash(HashFromByteSlices(SubSeq(items, 1, k)),
                       HashFromByteSlices(SubSeq(items, k + 1, Len(items))))

(* The aunts listed from the root's child down to the leaf's sibling. *)
RECURSIVE AuntsRootFirst(_, _)
AuntsRootFirst(items, index) ==
    IF Len(items) <= 1 THEN <<>>
    ELSE LET k == getSplitPoint(Len(items))
             left == SubSeq(items, 1, k)
             right == SubSeq(items, k + 1, Len(items))
         IN  IF index < k
             THEN <<HashFromByteSlices(right)>> \o AuntsRootFirst(left, index)
             ELSE <<HashFromByteSlices(left)>> \o AuntsRootFirst(right, index - k)

(* The aunts of the leaf at the 0-based index, ordered from the leaf's     *)
(* sibling up to the root's child.                                         *)
RECURSIVE Aunts(_, _)
Aunts(items, index) ==
    IF Len(items) <= 1 THEN <<>>
    ELSE LET k == getSplitPoint(Len(items))
             left == SubSeq(items, 1, k)
             right == SubSeq(items, k + 1, Len(items))
         IN  IF index < k
             THEN Append(Aunts(left, index), HashFromByteSlices(right))
             ELSE Append(Aunts(right, index - k), HashFromByteSlices(left))

(* One proof per item; proofs[i + 1] is the proof of the item at index i. *)
ProofsFromByteSlices(items) ==
    [i \in 1..Len(items) |->
        [Total |-> Len(items), Index |-> i - 1,
         LeafHash |-> leafHash(items[i]), Aunts |-> Aunts(items, i - 1)]]

(* The root a proof leads to; <<>> (nil) when the number of aunts is not   *)
(* the depth of the leaf.  The aunts are consumed from the end inward.     *)
RECURSIVE computeHashFromAunts(_, _, _, _)
computeHashFromAunts(index, total, leaf, innerHashes) ==
    IF index >= total \/ index < 0 \/ total <= 0 THEN <<>>
    ELSE IF total = 1 THEN (IF Len(innerHashes) # 0 THEN <<>> ELSE leaf)
    ELSE IF Len(innerHashes) = 0 THEN <<>>
    ELSE LET numLeft == getSplitPoint(total)
             last == innerHashes[Len(innerHashes)]
             rest == SubSeq(innerHashes, 1, Len(innerHashes) - 1)
         IN  IF index < numLeft
             THEN LET leftHash == computeHashFromAunts(index, numLeft, leaf, rest)
                  IN  IF leftHash = <<>> THEN <<>> ELSE innerHash(leftHash, last)
             ELSE LET rightHash == computeHashFromAunts(index - numLeft,
                                                        total - numLeft, leaf, rest)
                  IN  IF rightHash = <<>> THEN <<>> ELSE innerHash(last, rightHash)

ComputeRootHash(proof) ==
    computeHashFromAunts(proof.Index, proof.Total, proof.LeafHash, proof.Aunts)

ErrProofMismatch == "ProofMismatch"
ErrMalformedProof == "MalformedProof"

(* Verify without the comparison of the leaf hash. *)
VerifyLeafUnchecked(proof, rootHash, leaf) ==
    IF ComputeRootHash(proof) = <<>> THEN ErrMalformedProof
    ELSE IF ComputeRootHash(proof) # rootHash THEN ErrProofMismatch
    ELSE ""

(* Proof.Verify: "" when the proof is accepted, the error otherwise. *)
Verify(proof, rootHash, leaf) ==
    IF proof.LeafHash # leafHash(leaf) THEN ErrProofMismatch
    ELSE IF ComputeRootHash(proof) = <<>> THEN ErrMalformedProof
    ELSE IF ComputeRootHash(proof) # rootHash THEN ErrProofMismatch
    ELSE ""

-----------------------------------------------------------------------------
(* The leaf encoding: to32PaddedHexBytes, padBytes, encodeBridgeCommitment. *)

(* A uint64 is held as four 16-bit limbs, most significant first, so that  *)
(* the whole range up to 2^64 - 1 can be written.                          *)
LimbBase == 16 ^ 4

U64(n) == <<0, 0, n \div LimbBase, n % LimbBase>>

LimbDigits(l) == <<l \div (16 ^ 3), (l \div (16 ^ 2)) % 16, (l \div 16) % 16, l % 16>>

RECURSIVE StripZeros(_)
StripZeros(digits) ==
    IF Len(digits) > 1 /\ digits[1] = 0 THEN StripZeros(Tail(digits)) ELSE digits

(* strconv.FormatUint(number, 16): the hex digits of the number without    *)
(* leading zeros, "0" for zero.  A string is the sequence of its digits.   *)
FormatUint(number) ==
    StripZeros(LimbDigits(number[1]) \o LimbDigits(number[2])
               \o LimbDigits(number[3]) \o LimbDigits(number[4]))

ErrHexLength == "encoding/hex: odd length hex string"

(* hex.DecodeString: two digits a byte. *)
DecodeString(str) ==
    IF Len(str) % 2 = 1 THEN [err |-> ErrHexLength, val |-> <<>>]
    ELSE [err |-> "",
          val |-> [i \in 1..(Len(str) \div 2) |-> B(16 * str[2 * i - 1] + str[2 * i])]]

ErrPad == "cannot pad bytes because length of bytes array is greater than given length"

(* padBytes padding on the right. *)
padBytesRight(byt, length) ==
    LET l == Len(byt)
    IN  IF l > length THEN [err |-> ErrPad, val |-> <<>>]
        ELSE IF l = length THEN [err |-> "", val |-> byt]
        ELSE [err |-> "", val |-> byt \o Zeros(length - l)]

padBytes(byt, length) ==
    LET l == Len(byt)
    IN  IF l > length THEN [err |-> ErrPad, val |-> <<>>]
        ELSE IF l = length THEN [err |-> "", val |-> byt]
        ELSE [err |-> "", val |-> Zeros(length - l) \o byt]

to32PaddedHexBytes(number) ==
    LET hexRepresentation == FormatUint(number)
        even == IF Len(hexRepresentation) % 2 = 1
                THEN <<0>> \o hexRepresentation ELSE hexRepresentation
        hexBytes == DecodeString(even)
    IN  IF hexBytes.err # "" THEN hexBytes ELSE padBytes(hexBytes.val, 32)

(* One leaf: the padded height followed by the hash as it is. *)
encodeLeaf(leaf) ==
    LET paddedHeight == to32PaddedHexBytes(leaf.Height)
    IN  IF paddedHeight.err # "" THEN paddedHeight
        ELSE [err |-> "", val |-> paddedHeight.val \o leaf.LastResultsHash]

RECURSIVE encodeBridgeCommitment(_)
encodeBridgeCommitment(leaves) ==
    IF leaves = <<>> THEN [err |-> "", val |-> <<>>]
    ELSE LET encodedLeaf == encodeLeaf(leaves[1])
             rest == encodeBridgeCommitment(Tail(leaves))
         IN  IF encodedLeaf.err # "" THEN [err |-> encodedLeaf.err, val |-> <<>>]
             ELSE IF rest.err # "" THEN rest
             ELSE [err |-> "", val |-> <<encodedLeaf.val>> \o rest.val]

-----------------------------------------------------------------------------
(* Validation of the requested range. *)

ErrFirstBlockZero == "the first block is 0"
ErrInvertedRange == "last block is smaller than first block"
ErrEmptyRange == "cannot create the bridge commitments for an empty set of blocks"
ErrRangeTooLarge == "the query exceeds the limit of allowed blocks"
ErrBeyondChainHeight == "end block is higher than current chain height"
ErrHeightOutsideRange == "height should be in the end exclusive interval"

(* The range check without the comparison to the chain height. *)
validateBridgeCommitmentRangeAnyEnd(chainHeight, start, end) ==
    IF start = 0 THEN ErrFirstBlockZero
    ELSE IF start > end THEN ErrInvertedRange
    ELSE IF end - start = 0 THEN ErrEmptyRange
    ELSE IF end - start > BridgeCommitmentBlocksLimit THEN ErrRangeTooLarge
    ELSE ""

(* The range check with the end compared to the chain height itself. *)
validateBridgeCommitmentRangeEndInclusive(chainHeight, start, end) ==
    IF start = 0 THEN ErrFirstBlockZero
    ELSE IF start > end THEN ErrInvertedRange
    ELSE IF end - start = 0 THEN ErrEmptyRange
    ELSE IF end - start > BridgeCommitmentBlocksLimit THEN ErrRangeTooLarge
    ELSE IF end > chainHeight THEN ErrBeyondChainHeight
    ELSE ""

(* The range check with the empty range tested first. *)
validateBridgeCommitmentRangeReordered(chainHeight, start, end) ==
    IF end - start = 0 THEN ErrEmptyRange
    ELSE IF start = 0 THEN ErrFirstBlockZero
    ELSE IF start > end THEN ErrInvertedRange
    ELSE IF end - start > BridgeCommitmentBlocksLimit THEN ErrRangeTooLarge
    ELSE IF end > chainHeight + 1 THEN ErrBeyondChainHeight
    ELSE ""

(* "" is the nil error.  chainHeight is env.BlockStore.Height(). *)
validateBridgeCommitmentRange(chainHeight, start, end) ==
    IF start = 0 THEN ErrFirstBlockZero
    ELSE IF start > end THEN ErrInvertedRange
    ELSE IF end - start = 0 THEN ErrEmptyRange
    ELSE IF end - start > BridgeCommitmentBlocksLimit THEN ErrRangeTooLarge
    ELSE IF end > chainHeight + 1 THEN ErrBeyondChainHeight
    ELSE ""

(* The request check with the end of the range included. *)
validateRequestEndInclusive(chainHeight, height, start, end) ==
    LET err == validateBridgeCommitmentRange(chainHeight, start, end)
    IN  IF err # "" THEN err
        ELSE IF height < start \/ height > end THEN ErrHeightOutsideRange
        ELSE ""

validateBridgeCommitmentInclusionProofRequest(chainHeight, height, start, end) ==
    LET err == validateBridgeCommitmentRange(chainHeight, start, end)
    IN  IF err # "" THEN err
        ELSE IF height < start \/ height >= end THEN ErrHeightOutsideRange
        ELSE ""

-----------------------------------------------------------------------------
(* Transaction results: abci.ExecTxResult, types.NewResults and            *)
(* ABCIResults.ProveResult, state.TxResultsHash.                           *)

(* The i-th transaction result of a block, 1-based; the log is not         *)
(* deterministic.                                                          *)
ExecTxResult(i) == [Code |-> i % 2, Data |-> Bytes(<<i>>), Log |-> "ok"]

(* types.NewResults: only the deterministic fields are kept. *)
deterministicExecTxResult(r) == [Code |-> r.Code, Data |-> r.Data]

NewResults(txResults) ==
    [i \in 1..Len(txResults) |-> deterministicExecTxResult(txResults[i])]

(* The protobuf encoding of a deterministic result: field 1 (varint Code)  *)
(* and field 2 (bytes Data), each left out when it is the zero value.      *)
Marshal(r) ==
    (IF r.Code # 0 THEN <<B(8), B(r.Code)>> ELSE <<>>)
    \o (IF Len(r.Data) # 0 THEN <<B(18), B(Len(r.Data))>> \o r.Data ELSE <<>>)

toByteSlices(results) == [i \in 1..Len(results) |-> Marshal(results[i])]

(* state.TxResultsHash: the root recorded as LastResultsHash. *)
TxResultsHash(txResults) == HashFromByteSlices(toByteSlices(NewResults(txResults)))

-----------------------------------------------------------------------------
(* The stores and the responses. *)

(* The block one above the height asked for. *)
LoadBlockAbove(height) ==
    IF (height + 1) \in DOMAIN blocks
    THEN [found |-> TRUE, LastResultsHash |-> blocks[height + 1]]
    ELSE [found |-> FALSE, LastResultsHash |-> <<>>]

LoadBlock(height) ==
    IF height \in DOMAIN blocks
    THEN [found |-> TRUE, LastResultsHash |-> blocks[height]]
    ELSE [found |-> FALSE, LastResultsHash |-> <<>>]

ErrNoFinalizeResponse == "could not find results for height"

LoadFinalizeBlockResponse(height) ==
    IF height \in DOMAIN finalizeResponses
    THEN [err |-> "", TxResults |-> finalizeResponses[height]]
    ELSE [err |-> ErrNoFinalizeResponse, TxResults |-> <<>>]

(* The zero values of the response types. *)
ZeroProof == [Total |-> 0, Index |-> 0, LeafHash |-> <<>>, Aunts |-> <<>>]
ZeroLeaf == [Height |-> 0, LastResultsHash |-> <<>>]

(* The nil *ResultBridgeCommitment / *ResultBridgeCommitmentInclusionProof. *)
NilResult ==
    [present |-> FALSE, BridgeCommitment |-> <<>>,
     BridgeCommitmentMerkleProof |-> ZeroProof, LastResultsMerkleProof |-> ZeroProof,
     BridgeCommitmentLeaf |-> ZeroLeaf, TxResultMarshalled |-> <<>>]

Failed(err, loaded) ==
    [result |-> NilResult, err |-> err, panic |-> FALSE, calls |-> loaded]

Panicked(loaded) ==
    [result |-> NilResult, err |-> "", panic |-> TRUE, calls |-> loaded]

Returned(result, loaded) ==
    [result |-> result, err |-> "", panic |-> FALSE, calls |-> loaded]

(* fmt.Errorf("couldn't load block %d", height) *)
ErrLoadBlock(height) == "couldn't load block " \o ToString(height)
ErrTxIndexTooHigh == "transaction index too high"

(* fetchBridgeCommitmentLeaves: the leaves of [start, end) in ascending    *)
(* order, or the error of the first block that cannot be loaded.  loaded   *)
(* lists the heights LoadBlock was called with; missing is the height the  *)
(* error names.                                                            *)
RECURSIVE fetchFrom(_, _, _, _)
fetchFrom(height, end, leaves, loaded) ==
    IF ~(height < end)
    THEN [err |-> "", val |-> leaves, loaded |-> loaded, missing |-> 0]
    ELSE LET currentBlock == LoadBlock(height)
         IN  IF ~currentBlock.found
             THEN [err |-> ErrLoadBlock(height), val |-> <<>>,
                   loaded |-> Append(loaded, height), missing |-> height]
             ELSE fetchFrom(height + 1, end,
                            Append(leaves, [Height |-> height,
                                            LastResultsHash |-> currentBlock.LastResultsHash]),
                            Append(loaded, height))

(* The fetch that leaves out the blocks it cannot load. *)
fetchLeavesSkippingMissing(start, end) ==
    LET heights == [i \in 1..(IF start < end THEN end - start ELSE 0) |-> start + i - 1]
        present == SelectSeq(heights, LAMBDA h : LoadBlock(h).found)
    IN  [err |-> "",
         val |-> [i \in 1..Len(present) |->
                     [Height |-> present[i],
                      LastResultsHash |-> LoadBlock(present[i]).LastResultsHash]],
         loaded |-> heights, missing |-> 0]

(* The fetch that goes on to the head of the chain. *)
fetchLeavesToChainHeight(start, end) == fetchFrom(start, storeHeight + 1, <<>>, <<>>)

(* The fetch with the end of the range included. *)
fetchLeavesEndInclusive(start, end) == fetchFrom(start, end + 1, <<>>, <<>>)

fetchBridgeCommitmentLeaves(start, end) == fetchFrom(start, end, <<>>, <<>>)

(* The leaves as the encoder takes them: the height as a uint64. *)
WithU64(leaves) ==
    [i \in 1..Len(leaves) |->
        [Height |-> U64(leaves[i].Height), LastResultsHash |-> leaves[i].LastResultsHash]]

LoadBlockCalls(loaded) == [i \in 1..Len(loaded) |-> <<"LoadBlock", loaded[i]>>]

-----------------------------------------------------------------------------
(* The two RPC handlers. *)

(* uint64(height) of an int64: a negative height wraps to a value above    *)
(* every height of the model (Uint64Wrap stands for 2^64).                 *)
Uint64Wrap == 2 ^ 30

Uint64(height) == IF height < 0 THEN Uint64Wrap + height ELSE height

(* The proof of the first leaf, whatever the height. *)
bcProofIndexFirst(height, leaves) == 0

(* The position counted back from the last leaf. *)
bcProofIndexFromEnd(height, leaves) == leaves[Len(leaves)].Height - height

(* The position of the proof of height among the proofs of the leaves. *)
bcProofIndex(height, leaves) == height - leaves[1].Height

(* The results at the height itself. *)
resultsHeightSame(height) == height

(* The height whose transaction results make the LastResultsHash at height. *)
resultsHeight(height) == height - 1

(* The block is never taken as one without transactions. *)
noTxResultsNever(txResults, txIndex) == FALSE

(* The block at height - 1 has no transaction and the first one is asked   *)
(* for: only the bridge proof is returned.                                 *)
noTxResults(txResults, txIndex) == Len(txResults) = 0 /\ txIndex = 0

(* The index one past the last result is let through. *)
txIndexTooHighExclusive(txIndex, txResults) == txIndex > Len(txResults)

(* int(txIndex) >= len(TxResults): there is no result at txIndex. *)
txIndexTooHigh(txIndex, txResults) == txIndex >= Len(txResults)

(* The handler fetching the leaves before it validates the range. *)
BridgeCommitmentReturnFetchFirst(start, end) ==
    LET leaves == fetchBridgeCommitmentLeaves(start, end)
        err == validateBridgeCommitmentRange(storeHeight, start, end)
        encodedLeaves == encodeBridgeCommitment(WithU64(leaves.val))
        root == HashFromByteSlices(encodedLeaves.val)
    IN  IF leaves.err # "" THEN Failed(leaves.err, LoadBlockCalls(leaves.loaded))
        ELSE IF err # "" THEN Failed(err, LoadBlockCalls(leaves.loaded))
        ELSE IF encodedLeaves.err # ""
             THEN Failed(encodedLeaves.err, LoadBlockCalls(leaves.loaded))
        ELSE Returned([NilResult EXCEPT !.present = TRUE, !.BridgeCommitment = root],
                      LoadBlockCalls(leaves.loaded))

(* What BridgeCommitment(start, end) returns. *)
BridgeCommitmentReturn(start, end) ==
    LET err == validateBridgeCommitmentRange(storeHeight, start, end)
        leaves == fetchBridgeCommitmentLeaves(start, end)
        encodedLeaves == encodeBridgeCommitment(WithU64(leaves.val))
        root == HashFromByteSlices(encodedLeaves.val)
    IN  IF err # "" THEN Failed(err, <<>>)
        ELSE IF leaves.err # "" THEN Failed(leaves.err, LoadBlockCalls(leaves.loaded))
        ELSE IF encodedLeaves.err # ""
             THEN Failed(encodedLeaves.err, LoadBlockCalls(leaves.loaded))
        ELSE Returned([NilResult EXCEPT !.present = TRUE, !.BridgeCommitment = root],
                      LoadBlockCalls(leaves.loaded))

(* What BridgeCommitmentInclusionProof(height, txIndex, start, end) returns. *)
BridgeCommitmentInclusionProofReturn(height, txIndex, start, end) ==
    LET err == validateBridgeCommitmentInclusionProofRequest(
                   storeHeight, Uint64(height), start, end)
        leaves == fetchBridgeCommitmentLeaves(start, end)
        encodedLeaves == encodeBridgeCommitment(WithU64(leaves.val))
        proofs == ProofsFromByteSlices(encodedLeaves.val)
        bcProof == proofs[bcProofIndex(height, leaves.val) + 1]
        finalizeBlockResponse == LoadFinalizeBlockResponse(resultsHeight(height))
        loadedBlocks == LoadBlockCalls(leaves.loaded)
        loadedAll == Append(loadedBlocks,
                            <<"LoadFinalizeBlockResponse", resultsHeight(height)>>)
        deterministicTxResults == NewResults(finalizeBlockResponse.TxResults)
        txProofs == ProofsFromByteSlices(toByteSlices(deterministicTxResults))
    IN  IF err # "" THEN Failed(err, <<>>)
        ELSE IF leaves.err # "" THEN Failed(leaves.err, loadedBlocks)
        ELSE IF encodedLeaves.err # "" THEN Failed(encodedLeaves.err, loadedBlocks)
        ELSE IF finalizeBlockResponse.err # ""
             THEN Failed(finalizeBlockResponse.err, loadedAll)
        ELSE IF noTxResults(finalizeBlockResponse.TxResults, txIndex)
             THEN Returned([NilResult EXCEPT !.present = TRUE,
                                             !.BridgeCommitmentMerkleProof = bcProof],
                           loadedAll)
        ELSE IF txIndexTooHigh(txIndex, finalizeBlockResponse.TxResults)
             THEN Failed(ErrTxIndexTooHigh, loadedAll)
        \* ProveResult indexes the proofs: an index outside them panics.
        ELSE IF txIndex < 0 \/ txIndex >= Len(txProofs) THEN Panicked(loadedAll)
        ELSE Returned([NilResult EXCEPT !.present = TRUE,
                                        !.BridgeCommitmentMerkleProof = bcProof,
                                        !.LastResultsMerkleProof = txProofs[txIndex + 1]],
                      loadedAll)

-----------------------------------------------------------------------------
(* The node: the chain grows and is pruned while requests are served. *)

NoRequest == [op |-> "none", height |-> 0, txIndex |-> 0, start |-> 0, end |-> 0]

(* The heights a request may name: around the chain, and one that makes   *)
(* the range too large or too high.                                        *)
ReqHeights == 0..(MaxHeight + 1) \cup {BridgeCommitmentBlocksLimit + 2}

(* The inclusion-proof requests sent.  The handler reads height only once  *)
(* the range is accepted and txIndex only once height is in the range, so  *)
(* they are varied only in the requests that can get that far.             *)
InclusionProofRequests ==
    {r \in [height : -1..(MaxHeight + 1), txIndex : -1..MaxTxs,
            start : ReqHeights, end : ReqHeights] :
        /\ r.txIndex # 0 => (r.start <= r.height /\ r.height < r.end)
        /\ r.height # r.start => (0 < r.start /\ r.start < r.end
                                   /\ r.end <= MaxHeight + 1)}

(* The numbers of transactions a block is committed with: none, one, and  *)
(* a number that makes the results tree unbalanced.                        *)
TxCounts == {0, 1, MaxTxs}

(* The transaction results of a block with n transactions. *)
TxResultsOf(n) == [i \in 1..n |-> ExecTxResult(i)]

Init ==
    /\ storeHeight = 0
    /\ blocks = <<>>
    /\ finalizeResponses = <<>>
    /\ req = NoRequest
    /\ resp = Failed("", <<>>)
    /\ calls = <<>>
    /\ served = NotServed
    /\ ReactorNotStarted

(* A block is committed: its header records the root of the results of the *)
(* block before it (the root of no results at the initial height), and its *)
(* own results are saved.                                                  *)
AppendBlock(n) ==
    /\ storeHeight < MaxHeight
    /\ LET height == storeHeight + 1
           lastResultsHash == IF height = 1 THEN TxResultsHash(<<>>)
                              ELSE TxResultsHash(finalizeResponses[height - 1])
       IN  /\ storeHeight' = height
           /\ blocks' = blocks @@ (height :> lastResultsHash)
           /\ finalizeResponses' = finalizeResponses @@ (height :> TxResultsOf(n))
    /\ req = NoRequest
    /\ UNCHANGED <<req, resp, calls, served, reactorVars>>

(* The block store drops its lowest block; the latest block is kept. *)
PruneBlocks ==
    /\ req = NoRequest
    /\ \E base \in DOMAIN blocks :
          /\ \A h \in DOMAIN blocks : base <= h
          /\ base < storeHeight
          /\ blocks' = [h \in DOMAIN blocks \ {base} |-> blocks[h]]
    /\ UNCHANGED <<storeHeight, finalizeResponses, req, resp, calls, served, reactorVars>>

BridgeCommitment(start, end) ==
    LET ret == BridgeCommitmentReturn(start, end)
    IN  /\ req = NoRequest
        /\ req' = [NoRequest EXCEPT !.op = "BridgeCommitment", !.start = start, !.end = end]
        /\ resp' = ret
        /\ calls' = ret.calls
        /\ UNCHANGED <<storeHeight, blocks, finalizeResponses, served, reactorVars>>

BridgeCommitmentInclusionProof(height, txIndex, start, end) ==
    LET ret == BridgeCommitmentInclusionProofReturn(height, txIndex, start, end)
    IN  /\ req = NoRequest
        /\ req' = [op |-> "BridgeCommitmentInclusionProof", height |-> height,
                   txIndex |-> txIndex, start |-> start, end |-> end]
        /\ resp' = ret
        /\ calls' = ret.calls
        /\ UNCHANGED <<storeHeight, blocks, finalizeResponses, served, reactorVars>>

(* The response has been delivered: the handler keeps nothing of it. *)
Done ==
    /\ req # NoRequest
    /\ req' = NoRequest
    /\ resp' = Failed("", <<>>)
    /\ calls' = <<>>
    /\ UNCHANGED <<storeHeight, blocks, finalizeResponses, served, reactorVars>>

Next ==
    \/ \E n \in TxCounts : AppendBlock(n)
    \/ PruneBlocks
    \/ \E start \in ReqHeights, end \in ReqHeights : BridgeCommitment(start, end)
    \/ \E r \in InclusionProofRequests :
          BridgeCommitmentInclusionProof(r.height, r.txIndex, r.start, r.end)
    \/ Done

Spec == Init /\ [][Next]_vars

-----------------------------------------------------------------------------
(* A client that keeps the first commitment it is given and asks again     *)
(* while the chain grows and other requests are served; no block is        *)
(* pruned, so the blocks of the range stay the same.                       *)

(* The ranges and the heights the client asks for. *)
ClientHeights == 1..(MaxHeight + 1)

ClientBridgeCommitment(start, end) ==
    LET ret == BridgeCommitmentReturn(start, end)
    IN  /\ req = NoRequest
        /\ req' = [NoRequest EXCEPT !.op = "BridgeCommitment", !.start = start, !.end = end]
        /\ resp' = ret
        /\ calls' = ret.calls
        /\ served' = IF served = NotServed /\ ret.result.present
                     THEN [start |-> start, end |-> end,
                           root |-> ret.result.BridgeCommitment,
                           chainHeight |-> storeHeight, interleaved |-> FALSE]
                     ELSE IF served # NotServed /\ <<start, end>> # <<served.start, served.end>>
                     THEN [served EXCEPT !.interleaved = TRUE]
                     ELSE served
        /\ UNCHANGED <<storeHeight, blocks, finalizeResponses, reactorVars>>

ClientBridgeCommitmentInclusionProof(height, txIndex, start, end) ==
    LET ret == BridgeCommitmentInclusionProofReturn(height, txIndex, start, end)
    IN  /\ req = NoRequest
        /\ req' = [op |-> "BridgeCommitmentInclusionProof", height |-> height,
                   txIndex |-> txIndex, start |-> start, end |-> end]
        /\ resp' = ret
        /\ calls' = ret.calls
        /\ served' = IF served # NotServed THEN [served EXCEPT !.interleaved = TRUE]
                     ELSE served
        /\ UNCHANGED <<storeHeight, blocks, finalizeResponses, reactorVars>>

NextClient ==
    \/ \E n \in TxCounts : AppendBlock(n)
    \/ \E start \in ClientHeights, end \in ClientHeights :
          ClientBridgeCommitment(start, end)
    \/ \E start \in ClientHeights, end \in ClientHeights :
          ClientBridgeCommitmentInclusionProof(start, 0, start, end)
    \/ Done

SpecClient == Init /\ [][NextClient]_vars

-----------------------------------------------------------------------------
(* The handlers and the fetch over mocked stores, as the unit tests set    *)
(* them up: the block store reports any height and holds any of the blocks *)
(* up to MaxHeight, each with a hash of its own; the state store has the   *)
(* results of every height.                                                *)

MockHash(height) == Sum(Bytes(<<height>>))

InitMock ==
    /\ storeHeight \in 0..MaxHeight
    /\ \E held \in SUBSET (1..MaxHeight) : blocks = [h \in held |-> MockHash(h)]
    /\ finalizeResponses = [h \in 1..MaxHeight |-> TxResultsOf(h % 2)]
    /\ req = NoRequest
    /\ resp = Failed("", <<>>)
    /\ calls = <<>>
    /\ served = NotServed
    /\ ReactorNotStarted

FetchBridgeCommitmentLeaves(start, end) ==
    LET leaves == fetchBridgeCommitmentLeaves(start, end)
    IN  /\ req = NoRequest
        /\ req' = [NoRequest EXCEPT !.op = "fetchBridgeCommitmentLeaves",
                                    !.start = start, !.end = end]
        /\ resp' = leaves
        /\ calls' = LoadBlockCalls(leaves.loaded)
        /\ UNCHANGED <<storeHeight, blocks, finalizeResponses, served, reactorVars>>

NextMock ==
    \/ \E start \in 0..(MaxHeight + 1), end \in 0..(MaxHeight + 1) :
          FetchBridgeCommitmentLeaves(start, end)
    \/ \E start \in ReqHeights, end \in ReqHeights : BridgeCommitment(start, end)
    \/ \E r \in InclusionProofRequests :
          BridgeCommitmentInclusionProof(r.height, r.txIndex, r.start, r.end)

SpecMock == InitMock /\ [][NextMock]_vars

-----------------------------------------------------------------------------
(* The validators called on their own, as the unit tests call them, on     *)
(* chains of any height.                                                   *)

Checked(err) == [result |-> NilResult, err |-> err, panic |-> FALSE, calls |-> <<>>]

ValChainHeights == {0, 1, 100, 999, 1000, 1001, 2000}

ValHeights == {0, 1, 2, 5, 100, 101, 102, 105, 1000, 1001, 1002, 1003, 2001, 2002}

InitValidate ==
    /\ storeHeight \in ValChainHeights
    /\ blocks = <<>>
    /\ finalizeResponses = <<>>
    /\ req = NoRequest
    /\ resp = Checked("")
    /\ calls = <<>>
    /\ served = NotServed
    /\ ReactorNotStarted

ValidateRange(start, end) ==
    /\ req = NoRequest
    /\ req' = [NoRequest EXCEPT !.op = "validateBridgeCommitmentRange",
                                !.start = start, !.end = end]
    /\ resp' = Checked(validateBridgeCommitmentRange(storeHeight, start, end))
    /\ UNCHANGED <<storeHeight, blocks, finalizeResponses, calls, served, reactorVars>>

ValidateRequest(height, start, end) ==
    /\ req = NoRequest
    /\ req' = [NoRequest EXCEPT !.op = "validateBridgeCommitmentInclusionProofRequest",
                                !.height = height, !.start = start, !.end = end]
    /\ resp' = Checked(validateBridgeCommitmentInclusionProofRequest(
                           storeHeight, height, start, end))
    /\ UNCHANGED <<storeHeight, blocks, finalizeResponses, calls, served, reactorVars>>

NextValidate ==
    \/ \E start \in ValHeights, end \in ValHeights : ValidateRange(start, end)
    \/ \E height \in ValHeights, start \in ValHeights, end \in ValHeights :
          ValidateRequest(height, start, end)

SpecValidate == InitValidate /\ [][NextValidate]_vars

-----------------------------------------------------------------------------
(* The encoders called on their own, on heights of the whole uint64 range  *)
(* and on result hashes of any length.                                     *)

LimbSamples == {0, 1, 10, 104, 255, 256, 4096, 65535}

U64Samples == [1..4 -> LimbSamples]

LeafHeights == {U64(1), U64(2), U64(104), <<0, 1, 0, 0>>, <<65535, 65535, 65535, 65535>>}

(* Digests, and byte strings that are shorter, longer or empty. *)
LeafHashes ==
    {Sum(<<>>), Bytes([i \in 1..Size |-> i]), <<>>,
     Bytes([i \in 1..(Size - 1) |-> i]), Bytes([i \in 1..(Size + 1) |-> i])}

LeafSamples == [Height : LeafHeights, LastResultsHash : LeafHashes]

LeavesSamples ==
    {<<>>} \cup {<<l>> : l \in LeafSamples}
    \cup {<<l1, l2>> : l1 \in LeafSamples, l2 \in LeafSamples}

InitCodec ==
    /\ storeHeight = 0
    /\ blocks = <<>>
    /\ finalizeResponses = <<>>
    /\ req = NoRequest
    /\ resp = [err |-> "", val |-> <<>>]
    /\ calls = <<>>
    /\ served = NotServed
    /\ ReactorNotStarted

To32PaddedHexBytes(number) ==
    /\ req = NoRequest
    /\ req' = [op |-> "to32PaddedHexBytes", number |-> number]
    /\ resp' = to32PaddedHexBytes(number)
    /\ UNCHANGED <<storeHeight, blocks, finalizeResponses, calls, served, reactorVars>>

EncodeBridgeCommitment(leaves) ==
    /\ req = NoRequest
    /\ req' = [op |-> "encodeBridgeCommitment", leaves |-> leaves]
    /\ resp' = encodeBridgeCommitment(leaves)
    /\ UNCHANGED <<storeHeight, blocks, finalizeResponses, calls, served, reactorVars>>

NextCodec ==
    \/ \E number \in U64Samples : To32PaddedHexBytes(number)
    \/ \E leaves \in LeavesSamples : EncodeBridgeCommitment(leaves)

SpecCodec == InitCodec /\ [][NextCodec]_vars

-----------------------------------------------------------------------------
(* HexMerkleProof: merkle.Proof with its hashes held as HexBytes. *)

(* The loop of both conversions: each aunt is converted to the other byte  *)
(* type, which keeps its bytes, and appended to the new list.              *)
RECURSIVE appendAunts(_, _)
appendAunts(newAunts, aunts) ==
    IF Len(aunts) = 0 THEN newAunts
    ELSE appendAunts(Append(newAunts, Head(aunts)), Tail(aunts))

(* The conversion with each aunt put in front of the new list. *)
NewHexMerkleProofPrepending(proof) ==
    [Total |-> proof.Total, Index |-> proof.Index, LeafHash |-> proof.LeafHash,
     Aunts |-> [i \in 1..Len(proof.Aunts) |-> proof.Aunts[Len(proof.Aunts) + 1 - i]]]

NewHexMerkleProof(proof) ==
    [Total |-> proof.Total, Index |-> proof.Index, LeafHash |-> proof.LeafHash,
     Aunts |-> appendAunts(<<>>, proof.Aunts)]

ToMerkleProof(proof) ==
    [Total |-> proof.Total, Index |-> proof.Index, LeafHash |-> proof.LeafHash,
     Aunts |-> appendAunts(<<>>, proof.Aunts)]

-----------------------------------------------------------------------------
(* A tree built and its proofs verified on their own. *)

Buffers == {<<>>, <<B(1)>>}

RECURSIVE SeqsOfLen(_)
SeqsOfLen(n) ==
    IF n = 0 THEN {<<>>}
    ELSE {Append(items, b) : items \in SeqsOfLen(n - 1), b \in Buffers}

InitMerkle ==
    /\ storeHeight = 0
    /\ blocks = <<>>
    /\ finalizeResponses = <<>>
    /\ req = NoRequest
    /\ resp = [err |-> ""]
    /\ calls = <<>>
    /\ served = NotServed
    /\ ReactorNotStarted

BuildProofs(items) ==
    /\ req = NoRequest
    /\ req' = [op |-> "ProofsFromByteSlices", items |-> items]
    /\ resp' = [err |-> "", root |-> HashFromByteSlices(items),
                proofs |-> ProofsFromByteSlices(items)]
    /\ UNCHANGED <<storeHeight, blocks, finalizeResponses, calls, served, reactorVars>>

VerifyProof(index) ==
    /\ req.op = "ProofsFromByteSlices"
    /\ index < Len(req.items)
    /\ req' = [op |-> "Verify", items |-> req.items, index |-> index,
               root |-> resp.root, proof |-> resp.proofs[index + 1]]
    /\ resp' = [err |-> Verify(resp.proofs[index + 1], resp.root, req.items[index + 1])]
    /\ UNCHANGED <<storeHeight, blocks, finalizeResponses, calls, served, reactorVars>>

(* TestHexMerkleProofIsLossless: a proof is converted to its hex form and  *)
(* back, and the root of the result is computed.                           *)
HexRoundTrip(index) ==
    /\ req.op = "ProofsFromByteSlices"
    /\ index < Len(req.items)
    /\ LET proof == resp.proofs[index + 1]
           hexProof == NewHexMerkleProof(proof)
           proofFromHexProof == ToMerkleProof(hexProof)
       IN  /\ req' = [op |-> "ToMerkleProof", items |-> req.items, index |-> index,
                      root |-> resp.root, proof |-> proof]
           /\ resp' = [err |-> "", hexProof |-> hexProof,
                       proofFromHexProof |-> proofFromHexProof,
                       root |-> ComputeRootHash(proofFromHexProof)]
    /\ UNCHANGED <<storeHeight, blocks, finalizeResponses, calls, served, reactorVars>>

(* What is done to the aunts of a proof before it is presented. *)
AuntsChanges == {"same", "short", "long"}

(* A proof produced for a leaf, with its index and total moved by dIndex   *)
(* and dTotal, its aunts cut or extended and its leaf hash replaced.       *)
Altered(proof, dIndex, dTotal, change, newLeafHash) ==
    [Total |-> proof.Total + dTotal,
     Index |-> proof.Index + dIndex,
     LeafHash |-> newLeafHash,
     Aunts |-> IF change = "short" /\ Len(proof.Aunts) > 0
               THEN SubSeq(proof.Aunts, 1, Len(proof.Aunts) - 1)
               ELSE IF change = "long" THEN Append(proof.Aunts, proof.LeafHash)
               ELSE proof.Aunts]

(* Verify is called, against the root of the tree, with a proof that is    *)
(* not the one produced for the leaf presented: for a leaf of the tree or  *)
(* not, with the leaf hash of the proof or of the leaf presented.          *)
VerifyAltered(index, dIndex, dTotal, change, leaf, ownHash) ==
    /\ req.op = "ProofsFromByteSlices"
    /\ index < Len(req.items)
    /\ LET produced == resp.proofs[index + 1]
           proof == Altered(produced, dIndex, dTotal, change,
                            IF ownHash THEN leafHash(leaf) ELSE produced.LeafHash)
       IN  /\ req' = [op |-> "VerifyAltered", items |-> req.items, index |-> index,
                      root |-> resp.root, proof |-> proof, leaf |-> leaf]
           /\ resp' = [err |-> Verify(proof, resp.root, leaf)]
    /\ UNCHANGED <<storeHeight, blocks, finalizeResponses, calls, served, reactorVars>>

NextMerkle ==
    \/ \E n \in 1..MaxLeaves : \E items \in SeqsOfLen(n) : BuildProofs(items)
    \/ \E index \in 0..(MaxLeaves - 1) : VerifyProof(index)
    \/ \E index \in 0..(MaxLeaves - 1) : HexRoundTrip(index)
    \/ /\ req.op = "ProofsFromByteSlices"
       /\ \E index \in 0..(Len(req.items) - 1), dIndex \in -1..1, dTotal \in -1..1,
             change \in AuntsChanges, leaf \in Buffers, ownHash \in BOOLEAN :
             VerifyAltered(index, dIndex, dTotal, change, leaf, ownHash)

SpecMerkle == InitMerkle /\ [][NextMerkle]_vars

-----------------------------------------------------------------------------
(* The node serving requests, with proofs also built over buffers of any   *)
(* content.  merkle.ProofsFromByteSlices reads no store, so the buffers    *)
(* are tried once, on the node that has no block yet.                      *)

NextProofs ==
    \/ Next
    \/ /\ req = NoRequest
       /\ storeHeight = 0
       /\ \E n \in 1..MaxLeaves : \E items \in SeqsOfLen(n) : BuildProofs(items)

SpecProofs == Init /\ [][NextProofs]_vars

-----------------------------------------------------------------------------
(* The blob reactor: one Receive for every message of a peer, and one      *)
(* broadcastBlobRoutine goroutine per peer. The goroutines share           *)
(* myTurnToSend and lastReceive without any lock, so the steps of the      *)
(* routines and of Receive interleave statement by statement, and a read   *)
(* of myTurnToSend may still see the value another goroutine has just      *)
(* overwritten.                                                            *)

(* The messages a peer may deliver: their type and the length of Data. *)
Messages == [type : {"Blob", "Other"}, len : 0..1]

Event(kind, peer, type, len, success) ==
    [kind |-> kind, peer |-> peer, type |-> type, len |-> len, success |-> success]

(* NewReactor: the turn is the one of the configuration, no peer yet. *)
NewReactor(SendFirst) ==
    /\ myTurnToSend = SendFirst
    /\ lastReceive = 0
    /\ peers = [p \in Peers |-> "none"]
    /\ routines = [p \in Peers |-> [pc |-> "none", observed |-> 0]]
    /\ clock = 0
    /\ lastWrite = [by |-> "none", old |-> FALSE]
    /\ sends = <<>>
    /\ event = NoEvent

InitReactor ==
    /\ storeHeight = 0
    /\ blocks = <<>>
    /\ finalizeResponses = <<>>
    /\ req = NoRequest
    /\ resp = Failed("", <<>>)
    /\ calls = <<>>
    /\ served = NotServed
    /\ \E SendFirst \in BOOLEAN : NewReactor(SendFirst)

(* AddPeer starts the routine of the peer. *)
AddPeer(peer) ==
    /\ peers[peer] = "none"
    /\ peers' = [peers EXCEPT ![peer] = "running"]
    /\ routines' = [routines EXCEPT ![peer] = [pc |-> "loop", observed |-> 0]]
    /\ event' = NoEvent
    /\ UNCHANGED <<myTurnToSend, lastReceive, clock, lastWrite, sends, bridgeVars>>

(* Receive with an empty blob as if it carried data. *)
ReceiveAnyBlob(Src, Message) ==
    /\ peers[Src] = "running"
    /\ Message.type = "Blob" => clock < MaxReceives
    /\ event' = Event("Receive", Src, Message.type, Message.len, FALSE)
    /\ IF Message.type = "Blob"
       THEN /\ myTurnToSend' = TRUE
            /\ lastWrite' = [by |-> "Receive", old |-> myTurnToSend]
            /\ clock' = clock + 1
            /\ lastReceive' = clock'
            /\ UNCHANGED peers
       ELSE /\ peers' = [peers EXCEPT ![Src] = "stopped"]
            /\ UNCHANGED <<myTurnToSend, lastReceive, clock, lastWrite>>
    /\ UNCHANGED <<routines, sends, bridgeVars>>

(* Receive: a blob with data gives the turn to this node and records when  *)
(* it came; an empty blob is logged; any other message stops the peer.     *)
Receive(Src, Message) ==
    /\ peers[Src] = "running"
    /\ (Message.type = "Blob" /\ Message.len > 0) => clock < MaxReceives
    /\ event' = Event("Receive", Src, Message.type, Message.len, FALSE)
    /\ IF Message.type = "Blob"
       THEN IF Message.len = 0
            THEN UNCHANGED <<myTurnToSend, lastReceive, clock, lastWrite, peers>>
            ELSE /\ myTurnToSend' = TRUE
                 /\ lastWrite' = [by |-> "Receive", old |-> myTurnToSend]
                 /\ clock' = clock + 1
                 /\ lastReceive' = clock'
                 /\ UNCHANGED peers
       ELSE /\ peers' = [peers EXCEPT ![Src] = "stopped"]
            /\ UNCHANGED <<myTurnToSend, lastReceive, clock, lastWrite>>
    /\ UNCHANGED <<routines, sends, bridgeVars>>

(* What the routine of a peer may read in myTurnToSend: its value, or the  *)
(* one that another goroutine has overwritten last.                        *)
TurnRead(peer) ==
    {myTurnToSend} \cup
        (IF lastWrite.by \notin {"none", peer} THEN {lastWrite.old} ELSE {})

(* The head of the loop: return when the peer is gone, else read the turn. *)
broadcastBlobRoutineLoop(peer, turn) ==
    /\ routines[peer].pc = "loop"
    /\ event' = NoEvent
    /\ IF peers[peer] # "running"
       THEN routines' = [routines EXCEPT ![peer].pc = "done"]
       ELSE /\ turn \in TurnRead(peer)
            /\ routines' = [routines EXCEPT ![peer] =
                    IF turn THEN [pc |-> "wait", observed |-> clock]
                    ELSE [pc |-> "sleep", observed |-> @.observed]]
    /\ UNCHANGED <<myTurnToSend, lastReceive, peers, clock, lastWrite, sends, bridgeVars>>

(* The wait of waitBeforeSend after the last blob, or the end of the peer. *)
broadcastBlobRoutineWait(peer, quit) ==
    /\ routines[peer].pc = "wait"
    /\ quit => peers[peer] = "stopped"
    /\ event' = NoEvent
    /\ routines' = [routines EXCEPT ![peer].pc = IF quit THEN "done" ELSE "send"]
    /\ UNCHANGED <<myTurnToSend, lastReceive, peers, clock, lastWrite, sends, bridgeVars>>

(* peer.Send: a blob that left goes to the log of the sends; one that did  *)
(* not lets the routine start over after a pause.                          *)
broadcastBlobRoutineSend(peer, success) ==
    /\ routines[peer].pc = "send"
    /\ success => peers[peer] = "running"
    /\ event' = Event("Send", peer, "Blob", 1, success)
    /\ IF success
       THEN /\ sends' = Append(sends, [peer |-> peer,
                                       observed |-> routines[peer].observed,
                                       turn |-> clock])
            /\ routines' = [routines EXCEPT ![peer] = [pc |-> "clear", observed |-> 0]]
       ELSE /\ routines' = [routines EXCEPT ![peer] = [pc |-> "loop", observed |-> 0]]
            /\ UNCHANGED sends
    /\ UNCHANGED <<myTurnToSend, lastReceive, peers, clock, lastWrite, bridgeVars>>

(* After a send that succeeded the turn is given up. *)
broadcastBlobRoutineClear(peer) ==
    /\ routines[peer].pc = "clear"
    /\ event' = NoEvent
    /\ myTurnToSend' = FALSE
    /\ lastWrite' = [by |-> peer, old |-> myTurnToSend]
    /\ routines' = [routines EXCEPT ![peer].pc = "sleep"]
    /\ UNCHANGED <<lastReceive, peers, clock, sends, bridgeVars>>

(* The pause at the end of the loop, or the end of the peer. *)
broadcastBlobRoutineSleep(peer, quit) ==
    /\ routines[peer].pc = "sleep"
    /\ quit => peers[peer] = "stopped"
    /\ event' = NoEvent
    /\ routines' = [routines EXCEPT ![peer].pc = IF quit THEN "done" ELSE "loop"]
    /\ UNCHANGED <<myTurnToSend, lastReceive, peers, clock, lastWrite, sends, bridgeVars>>

NextReactor ==
    \/ \E peer \in Peers : AddPeer(peer)
    \/ \E Src \in Peers, Message \in Messages : Receive(Src, Message)
    \/ \E peer \in Peers, turn \in BOOLEAN : broadcastBlobRoutineLoop(peer, turn)
    \/ \E peer \in Peers, quit \in BOOLEAN : broadcastBlobRoutineWait(peer, quit)
    \/ \E peer \in Peers, success \in BOOLEAN : broadcastBlobRoutineSend(peer, success)
    \/ \E peer \in Peers : broadcastBlobRoutineClear(peer)
    \/ \E peer \in Peers, quit \in BOOLEAN : broadcastBlobRoutineSleep(peer, quit)

SpecReactor == InitReactor /\ [][NextReactor]_vars

-----------------------------------------------------------------------------
(* Commitments and inclusion proofs: C1, C2, C3, C4. *)

(* The height as 32 big-endian bytes, for heights below 2^31. *)
Pad32(n) == [i \in 1..32 |-> B(IF i < 29 THEN 0 ELSE (n \div (256 ^ (32 - i))) % 256)]

(* The encoded leaf of a stored block. *)
ExpectedLeaf(h) == Pad32(h) \o blocks[h]

RangeAccepted(start, end) ==
    /\ start > 0
    /\ start < end
    /\ end - start <= 1000
    /\ end <= storeHeight + 1

\* C1: the bridge proof of a served inclusion-proof request has
\* index = height - start and total = end - start, and it verifies the
\* encoded leaf of the height against the root BridgeCommitment(start, end)
\* returns over the same block store.
BridgeProofVerifies ==
    (req.op = "BridgeCommitmentInclusionProof" /\ resp.result.present) =>
        LET proof == resp.result.BridgeCommitmentMerkleProof
            commitment == BridgeCommitmentReturn(req.start, req.end)
        IN  /\ proof.Index = req.height - req.start
            /\ proof.Total = req.end - req.start
            /\ commitment.result.present
            /\ Verify(proof, commitment.result.BridgeCommitment,
                      ExpectedLeaf(req.height)) = ""

(* The proof of the last of three leaves has been returned. *)
BridgeProofOfThirdLeaf ==
    /\ req.op = "BridgeCommitmentInclusionProof"
    /\ resp.result.present
    /\ req.end - req.start = 3
    /\ req.height = req.start + 2
    /\ Len(resp.result.BridgeCommitmentMerkleProof.Aunts) = 1

\* C2: when the header at height records the Merkle root of the deterministic
\* results finalized at height - 1 and 0 <= txIndex < len(results), the
\* results proof returned has index = txIndex and total = len(results) and
\* verifies the deterministic encoding of results[txIndex] against that
\* recorded hash.
ResultsProofVerifies ==
    (/\ req.op = "BridgeCommitmentInclusionProof"
     /\ resp.result.present
     /\ req.height \in DOMAIN blocks
     /\ (req.height - 1) \in DOMAIN finalizeResponses
     /\ blocks[req.height] = TxResultsHash(finalizeResponses[req.height - 1])
     /\ 0 <= req.txIndex
     /\ req.txIndex < Len(finalizeResponses[req.height - 1]))
        => LET proof == resp.result.LastResultsMerkleProof
               results == finalizeResponses[req.height - 1]
               leaf == Marshal(deterministicExecTxResult(results[req.txIndex + 1]))
           IN  /\ proof.Index = req.txIndex
               /\ proof.Total = Len(results)
               /\ Verify(proof, blocks[req.height], leaf) = ""

(* The proof of the last of three results has been returned. *)
ResultsProofOfThirdResult ==
    /\ req.op = "BridgeCommitmentInclusionProof"
    /\ resp.result.present
    /\ req.txIndex = 2
    /\ resp.result.LastResultsMerkleProof.Total = 3
    /\ blocks[req.height] = TxResultsHash(finalizeResponses[req.height - 1])

\* C3: for every non-empty sequence of buffers and every index in range, the
\* proof ProofsFromByteSlices produces for the index is accepted by Verify
\* against the root of the same sequence, also when the number of leaves is
\* not a power of two.
ProofRoundTrip ==
    req.op = "Verify" => resp.err = ""

(* The proof of the last of five leaves has been verified. *)
ProofOfFifthLeafVerified ==
    /\ req.op = "Verify"
    /\ Len(req.items) = 5
    /\ req.index = 4
    /\ resp.err = ""

\* C4: for every accepted range whose blocks are stored, BridgeCommitment
\* returns the root over the encoded leaves pad32(h) || LastResultsHash(h) for
\* h = start .. end - 1 in ascending order, and returns a root for no other
\* range; for two blocks the root is innerHash(leafHash(buf0), leafHash(buf1)).
BridgeCommitmentIsRootOfLeaves ==
    req.op = "BridgeCommitment" =>
        LET n == req.end - req.start
            stored == \A h \in req.start..(req.end - 1) : h \in DOMAIN blocks
            root == resp.result.BridgeCommitment
        IN  /\ resp.result.present <=> (RangeAccepted(req.start, req.end) /\ stored)
            /\ resp.result.present =>
                  root = HashFromByteSlices(
                             [i \in 1..n |-> ExpectedLeaf(req.start + i - 1)])
            /\ (resp.result.present /\ n = 2) =>
                  root = innerHash(leafHash(ExpectedLeaf(req.start)),
                                   leafHash(ExpectedLeaf(req.start + 1)))

(* The commitment of two blocks has been returned. *)
BridgeCommitmentOfTwoBlocks ==
    /\ req.op = "BridgeCommitment"
    /\ resp.result.present
    /\ req.end - req.start = 2

-----------------------------------------------------------------------------
(* Range validation: C5, C6, C7. *)

RangeViolations(chainHeight, start, end) ==
    <<start = 0, start > end, end - start = 0, end - start > 1000,
      end > chainHeight + 1>>

RangeErrors ==
    <<ErrFirstBlockZero, ErrInvertedRange, ErrEmptyRange, ErrRangeTooLarge,
      ErrBeyondChainHeight>>

\* C6: when validateBridgeCommitmentRange fails, its error is the one of the
\* first violated condition in the order FirstBlockZero, InvertedRange,
\* EmptyRange, RangeTooLarge, RangeBeyondChainHeight; a range violating exactly
\* one condition gets exactly the error of that condition.
ValidateRangeFirstViolated ==
    req.op = "validateBridgeCommitmentRange" =>
        LET violated == RangeViolations(storeHeight, req.start, req.end)
            which == {i \in 1..5 : violated[i]}
        IN  /\ which = {} => resp.err = ""
            /\ which # {} =>
                  \E i \in which : /\ \A j \in which : i <= j
                                   /\ resp.err = RangeErrors[i]
            /\ \A i \in 1..5 : which = {i} => resp.err = RangeErrors[i]

(* start = 0 and end = 0 violate two conditions: the first one is reported. *)
ValidateRangeTwoViolations ==
    /\ req.op = "validateBridgeCommitmentRange"
    /\ req.start = 0
    /\ req.end = 0
    /\ resp.err = ErrFirstBlockZero

\* C7: validateBridgeCommitmentInclusionProofRequest succeeds if and only if
\* the range check succeeds and start <= height < end; an invalid range gets
\* the range error, not HeightOutsideRange; height = end is rejected.
ValidateRequestHeightInRange ==
    req.op = "validateBridgeCommitmentInclusionProofRequest" =>
        LET violated == RangeViolations(storeHeight, req.start, req.end)
            rangeOk == \A i \in 1..5 : ~violated[i]
        IN  /\ resp.err = "" <=>
                  (rangeOk /\ req.start <= req.height /\ req.height < req.end)
            /\ ~rangeOk =>
                  /\ resp.err # ErrHeightOutsideRange
                  /\ resp.err = validateBridgeCommitmentRange(storeHeight, req.start,
                                                              req.end)
            /\ (rangeOk /\ req.height = req.end) => resp.err = ErrHeightOutsideRange

(* height = end of an accepted range is rejected. *)
ValidateRequestRejectsEnd ==
    /\ req.op = "validateBridgeCommitmentInclusionProofRequest"
    /\ req.height = req.end
    /\ req.start > 0
    /\ req.start < req.end
    /\ req.end <= storeHeight + 1
    /\ resp.err = ErrHeightOutsideRange

-----------------------------------------------------------------------------
(* Leaf encoding: C8, C9, C10. *)

\* C8: every encoded leaf returned by encodeBridgeCommitment is exactly 64
\* bytes long, whatever the height and whatever result hash the leaf carries.
EncodedLeafIs64Bytes ==
    req.op = "encodeBridgeCommitment" =>
        \A i \in 1..Len(resp.val) : Len(resp.val[i]) = 64

(* The four 16-bit limbs the last eight of 32 bytes spell, big-endian. *)
BigEndianLimbs(bytes) ==
    [j \in 1..4 |-> 256 * bytes[23 + 2 * j][1] + bytes[24 + 2 * j][1]]

IsPadded(bytes, number) ==
    /\ Len(bytes) >= 32
    /\ \A i \in 1..24 : bytes[i] = B(0)
    /\ BigEndianLimbs(bytes) = number

EncodeRejectsMalformedHash ==
    (/\ req.op = "encodeBridgeCommitment"
     /\ \E i \in 1..Len(req.leaves) : Len(req.leaves[i].LastResultsHash) # 32)
        => (resp.err # "" /\ resp.val = <<>>)

-----------------------------------------------------------------------------
(* What an inclusion-proof request returns: C11, C12, C13, C14. *)

(* The request passed validation, its blocks were fetched and the results  *)
(* finalized at height - 1 were loaded.                                    *)
ResultsLoaded ==
    /\ req.op = "BridgeCommitmentInclusionProof"
    /\ RangeAccepted(req.start, req.end)
    /\ req.start <= req.height
    /\ req.height < req.end
    /\ \A h \in req.start..(req.end - 1) : h \in DOMAIN blocks
    /\ (req.height - 1) \in DOMAIN finalizeResponses

\* C11: when the block at height - 1 has no transaction result and txIndex
\* is 0, the request succeeds and returns the bridge proof of the height
\* alone: the results proof and the raw transaction result are left empty.
EmptyBlockReturnsBridgeProofOnly ==
    (/\ ResultsLoaded
     /\ Len(finalizeResponses[req.height - 1]) = 0
     /\ req.txIndex = 0)
        => /\ resp.err = ""
           /\ ~resp.panic
           /\ resp.result.present
           /\ resp.result.BridgeCommitmentMerkleProof # ZeroProof
           /\ resp.result.BridgeCommitmentMerkleProof.Total = req.end - req.start
           /\ resp.result.BridgeCommitmentMerkleProof.Index = req.height - req.start
           /\ resp.result.LastResultsMerkleProof = ZeroProof
           /\ resp.result.TxResultMarshalled = <<>>

(* The first transaction of a block without transactions was asked for.   *)
EmptyBlockServed ==
    /\ ResultsLoaded
    /\ Len(finalizeResponses[req.height - 1]) = 0
    /\ req.txIndex = 0
    /\ resp.result.present
    /\ req.end - req.start = 2

\* C12: once the results at height - 1 are loaded, a txIndex at or above the
\* number of results fails with "transaction index too high" and returns no
\* result, except for txIndex 0 on a block without transactions; txIndex 1
\* on a block without transactions fails.
TxIndexOutOfRangeFails ==
    (/\ ResultsLoaded
     /\ req.txIndex >= Len(finalizeResponses[req.height - 1])
     /\ ~(Len(finalizeResponses[req.height - 1]) = 0 /\ req.txIndex = 0))
        => /\ resp.err = ErrTxIndexTooHigh
           /\ ~resp.panic
           /\ resp.result = NilResult

(* The second transaction of a block without transactions was asked for.  *)
TxIndexOneOnEmptyBlock ==
    /\ ResultsLoaded
    /\ Len(finalizeResponses[req.height - 1]) = 0
    /\ req.txIndex = 1
    /\ resp.err = ErrTxIndexTooHigh

\* C13: every result an inclusion-proof request returns carries the
\* commitment leaf of the requested height: the leaf's height is the height
\* and its result hash is the hash the header at that height records, with
\* and without transactions at height - 1.
ResultCarriesLeaf ==
    (req.op = "BridgeCommitmentInclusionProof" /\ resp.result.present)
        => /\ resp.result.BridgeCommitmentLeaf.Height = req.height
           /\ resp.result.BridgeCommitmentLeaf.LastResultsHash = blocks[req.height]

\* C14: whenever a results proof is returned, the raw transaction result is
\* returned with it and is the encoding of the deterministic form of the
\* result at txIndex.
ResultCarriesRawTxResult ==
    (/\ req.op = "BridgeCommitmentInclusionProof"
     /\ resp.result.present
     /\ resp.result.LastResultsMerkleProof # ZeroProof)
        => /\ resp.result.TxResultMarshalled # <<>>
           /\ resp.result.TxResultMarshalled =
                 Marshal(deterministicExecTxResult(
                     finalizeResponses[req.height - 1][req.txIndex + 1]))

-----------------------------------------------------------------------------
(* The hex form of a proof: C15. *)

-----------------------------------------------------------------------------
(* What Verify accepts: C16. *)

(* The number of aunts of the leaf at index in a tree of total leaves; -1  *)
(* when there is no such leaf.                                             *)
RECURSIVE PathLength(_, _)
PathLength(index, total) ==
    IF index < 0 \/ total <= 0 \/ index >= total THEN -1
    ELSE IF total = 1 THEN 0
    ELSE LET k == CHOOSE p \in 1..total :
                     /\ p < total
                     /\ total <= 2 * p
                     /\ \E e \in 0..total : p = 2 ^ e
         IN  IF index < k THEN 1 + PathLength(index, k)
             ELSE 1 + PathLength(index - k, total - k)

(* The proof presented has the leaf hash of the leaf presented. *)
LeafHashMatches == leafHash(req.leaf) = req.proof.LeafHash

(* The proof presented has as many aunts as its index and total require. *)
AuntsCountMatches ==
    Len(req.proof.Aunts) = PathLength(req.proof.Index, req.proof.Total)

(* Verify accepts exactly on the three conditions, and names the failure. *)
VerifyChecks ==
    /\ resp.err = "" <=> (/\ LeafHashMatches
                          /\ AuntsCountMatches
                          /\ ComputeRootHash(req.proof) = req.root)
    /\ (LeafHashMatches /\ ~AuntsCountMatches) => resp.err = ErrMalformedProof
    /\ (LeafHashMatches /\ AuntsCountMatches /\ ComputeRootHash(req.proof) # req.root)
          => resp.err = ErrProofMismatch

-----------------------------------------------------------------------------
(* Fetching the leaves: C17, C19. *)

(* The request got as far as fetching the leaves of a non-empty range. *)
LeavesFetched ==
    \/ req.op = "fetchBridgeCommitmentLeaves" /\ req.start < req.end
    \/ req.op = "BridgeCommitment" /\ RangeAccepted(req.start, req.end)
    \/ /\ req.op = "BridgeCommitmentInclusionProof"
       /\ RangeAccepted(req.start, req.end)
       /\ req.start <= req.height
       /\ req.height < req.end

(* The heights of the range whose block is not in the store. *)
MissingHeights == {h \in req.start..(req.end - 1) : h \notin DOMAIN blocks}

-----------------------------------------------------------------------------
(* Results and errors: C18. *)

\* C18: BridgeCommitment and BridgeCommitmentInclusionProof return, in every
\* outcome, exactly one of a result and an error, and no result at all with
\* an error.
ResultOrErrorNeverBoth ==
    req.op \in {"BridgeCommitment", "BridgeCommitmentInclusionProof"} =>
        /\ resp.result.present \/ resp.err # ""
        /\ ~(resp.result.present /\ resp.err # "")
        /\ resp.err # "" => resp.result = NilResult

-----------------------------------------------------------------------------
(* The shape of the tree: C20. *)

(* The largest power of two strictly below n, by its definition. *)
LargestPowerOfTwoBelow(n) ==
    CHOOSE k \in 1..n : /\ k < n
                        /\ \E e \in 0..n : k = 2 ^ e
                        /\ \A e \in 0..n : 2 ^ e < n => 2 ^ e <= k

\* C20: the root of one buffer is its leaf hash; the root of n >= 2 buffers
\* is the inner hash of the root of the first k and the root of the other
\* n - k, where k is the largest power of two strictly below n, so that
\* 1 <= k < n and n - k <= k; three leaves hash as ((1 2) 3) and five as
\* (((1 2) (3 4)) 5).
RootFollowsSplitRule ==
    req.op = "ProofsFromByteSlices" =>
        LET items == req.items
            n == Len(items)
            k == getSplitPoint(n)
            leaf(i) == leafHash(items[i])
        IN  /\ n = 1 => resp.root = leafHash(items[1])
            /\ n >= 2 =>
                  /\ k = LargestPowerOfTwoBelow(n)
                  /\ 1 <= k /\ k < n /\ n - k <= k
                  /\ resp.root = innerHash(HashFromByteSlices(SubSeq(items, 1, k)),
                                           HashFromByteSlices(SubSeq(items, k + 1, n)))
            /\ n = 3 => resp.root = innerHash(innerHash(leaf(1), leaf(2)), leaf(3))
            /\ n = 5 => resp.root =
                  innerHash(innerHash(innerHash(leaf(1), leaf(2)),
                                      innerHash(leaf(3), leaf(4))),
                            leaf(5))

(* The root of five buffers has been computed: four on the left, one on   *)
(* the right.                                                              *)
RootOfFiveBuffers ==
    /\ req.op = "ProofsFromByteSlices"
    /\ Len(req.items) = 5
    /\ getSplitPoint(5) = 4
    /\ resp.root = innerHash(HashFromByteSlices(SubSeq(req.items, 1, 4)),
                             leafHash(req.items[5]))

-----------------------------------------------------------------------------
(* The proofs produced: C21. *)

(* proof is the proof of the buffer at index among the buffers: its total, *)
(* index, leaf hash and number of aunts.                                   *)
IsProofOf(proof, buffers, index) ==
    /\ proof.Total = Len(buffers)
    /\ proof.Index = index
    /\ 0 <= proof.Index
    /\ proof.Index < proof.Total
    /\ proof.LeafHash = leafHash(buffers[index + 1])
    /\ Len(proof.Aunts) = PathLength(index, Len(buffers))
    /\ proof.Total = 1 => Len(proof.Aunts) = 0

\* C21: every proof produced over n buffers at index i has total n, index i
\* with 0 <= i < n, the leaf hash of the i-th buffer and as many aunts as the
\* leaf is deep in the tree (none when n = 1); so have the bridge proof and
\* the results proof an inclusion-proof request returns.
ProofsAreWellFormed ==
    /\ req.op = "ProofsFromByteSlices" =>
          /\ Len(resp.proofs) = Len(req.items)
          /\ \A i \in 0..(Len(req.items) - 1) :
                IsProofOf(resp.proofs[i + 1], req.items, i)
    /\ (req.op = "BridgeCommitmentInclusionProof" /\ resp.result.present) =>
          /\ IsProofOf(resp.result.BridgeCommitmentMerkleProof,
                       [i \in 1..(req.end - req.start) |-> ExpectedLeaf(req.start + i - 1)],
                       req.height - req.start)
          /\ resp.result.LastResultsMerkleProof # ZeroProof =>
                IsProofOf(resp.result.LastResultsMerkleProof,
                          toByteSlices(NewResults(finalizeResponses[req.height - 1])),
                          req.txIndex)

(* Both proofs of a request have been returned, each over three leaves and *)
(* with a single aunt.                                                     *)
BothProofsOverThreeLeaves ==
    /\ req.op = "BridgeCommitmentInclusionProof"
    /\ resp.result.present
    /\ resp.result.BridgeCommitmentMerkleProof.Total = 3
    /\ resp.result.BridgeCommitmentMerkleProof.Index = 2
    /\ resp.result.LastResultsMerkleProof.Total = 3
    /\ resp.result.LastResultsMerkleProof.Index = 2
    /\ Len(resp.result.LastResultsMerkleProof.Aunts) = 1

-----------------------------------------------------------------------------
(* The order of the steps: C22. *)

(* The request is one of the two handlers'. *)
IsHandlerRequest == req.op \in {"BridgeCommitment", "BridgeCommitmentInclusionProof"}

(* The request passes the validation of its handler. *)
RequestValid ==
    /\ RangeAccepted(req.start, req.end)
    /\ req.op = "BridgeCommitmentInclusionProof" =>
          (req.start <= req.height /\ req.height < req.end)

(* The positions of the calls to LoadFinalizeBlockResponse. *)
ResultsCalls == {i \in 1..Len(calls) : calls[i][1] = "LoadFinalizeBlockResponse"}

(* The calls of a served request: none when validation fails; otherwise    *)
(* LoadBlock from start upwards, and for an inclusion proof at most one    *)
(* LoadFinalizeBlockResponse, of height - 1, after the block of every      *)
(* height of the range was loaded.                                         *)
CallsInOrder ==
    IsHandlerRequest =>
        /\ ~RequestValid => calls = <<>>
        /\ \A i \in 1..Len(calls) \ ResultsCalls :
              calls[i] = <<"LoadBlock", req.start + i - 1>> /\ i <= req.end - req.start
        /\ Cardinality(ResultsCalls) <= 1
        /\ req.op = "BridgeCommitment" => ResultsCalls = {}
        /\ \A i \in ResultsCalls :
              /\ i = Len(calls)
              /\ i = req.end - req.start + 1
              /\ calls[i] = <<"LoadFinalizeBlockResponse", req.height - 1>>
              /\ \A h \in req.start..(req.end - 1) : h \in DOMAIN blocks

\* C22: the steps run in the order validate, fetch the leaves, fetch the
\* results: a request that fails validation makes no fetch call; an
\* inclusion-proof request loads the results at most once, only after the
\* block of every height of [start, end) was loaded, and of height - 1; and
\* serving a request leaves the stores as they were.
StepsInOrder ==
    [][/\ CallsInOrder'
       /\ (req = NoRequest /\ req' # NoRequest) =>
             UNCHANGED <<storeHeight, blocks, finalizeResponses>>]_vars

(* An inclusion-proof request over three blocks has loaded them and then   *)
(* the results of the block below its height.                              *)
ResultsLoadedAfterThreeBlocks ==
    /\ req.op = "BridgeCommitmentInclusionProof"
    /\ Len(calls) = 4
    /\ \A i \in 1..3 : calls[i] = <<"LoadBlock", req.start + i - 1>>
    /\ calls[4] = <<"LoadFinalizeBlockResponse", req.height - 1>>

-----------------------------------------------------------------------------
(* The commitment asked for again: C23. *)

\* C23: BridgeCommitment(start, end) asked again over the same blocks
\* returns the root it returned the first time, also after blocks were
\* appended at heights >= end and after other BridgeCommitment and
\* BridgeCommitmentInclusionProof requests were served in between.
CommitmentIsRepeatable ==
    (/\ req.op = "BridgeCommitment"
     /\ served # NotServed
     /\ req.start = served.start
     /\ req.end = served.end
     /\ \A h \in req.start..(req.end - 1) : h \in DOMAIN blocks)
        => /\ resp.err = ""
           /\ resp.result.present
           /\ resp.result.BridgeCommitment = served.root

(* The commitment of two blocks has been returned again, the same, after   *)
(* the chain has grown and another request was served.                     *)
CommitmentRepeatedAfterGrowth ==
    /\ req.op = "BridgeCommitment"
    /\ served # NotServed
    /\ req.start = served.start
    /\ req.end = served.end
    /\ req.end - req.start = 2
    /\ served.chainHeight < storeHeight
    /\ served.interleaved
    /\ resp.result.present
    /\ resp.result.BridgeCommitment = served.root

-----------------------------------------------------------------------------
(* The end of the range and the chain height: C24. *)

-----------------------------------------------------------------------------
(* A negative transaction index: C25. *)

\* C25: an inclusion-proof request that is valid but for a negative txIndex
\* returns the error of a transaction index out of range, no proof, and does
\* not panic on an index outside the proofs, whether the block at height - 1
\* has transactions or not.
NegativeTxIndexIsAnError ==
    (ResultsLoaded /\ req.txIndex < 0)
        => /\ ~resp.panic
           /\ resp.err = ErrTxIndexTooHigh
           /\ resp.result = NilResult

-----------------------------------------------------------------------------
(* A commitment for every accepted range: C26. *)

\* C26: when the range is accepted and the block store holds, for every
\* height from 1 to the chain height, a block with a result hash of 32
\* bytes, BridgeCommitment returns a root and no error: no block is missing,
\* no leaf fails to encode and the tree is not built over nothing.
AcceptedRangeGetsCommitment ==
    (/\ req.op = "BridgeCommitment"
     /\ validateBridgeCommitmentRange(storeHeight, req.start, req.end) = ""
     /\ \A h \in 1..storeHeight : h \in DOMAIN blocks /\ Len(blocks[h]) = Size)
        => /\ resp.err = ""
           /\ ~resp.panic
           /\ resp.result.present
           /\ Len(resp.result.BridgeCommitment) = Size
           /\ resp.result.BridgeCommitment # HashFromByteSlices(<<>>)
           /\ Len(calls) = req.end - req.start

(* The commitment of the whole chain, up to its last block, was returned.  *)
CommitmentOfWholeChain ==
    /\ req.op = "BridgeCommitment"
    /\ req.start = 1
    /\ req.end = storeHeight + 1
    /\ storeHeight = MaxHeight
    /\ \A h \in 1..storeHeight : h \in DOMAIN blocks /\ Len(blocks[h]) = Size
    /\ resp.result.present

-----------------------------------------------------------------------------
(* The turns of the blob reactor: C27, C28. *)

\* C27: the reactor sends at most one blob per turn: between two blobs that
\* it sent, to whichever peers, it received a blob with data, and no two
\* routines send after reading the same myTurnToSend = true.
OneSendPerTurn ==
    /\ \A i, j \in DOMAIN sends : i < j => sends[i].turn < sends[j].turn
    /\ \A i, j \in DOMAIN sends :
           sends[i].peer # sends[j].peer => sends[i].observed # sends[j].observed

(* A step of Receive, for a message of the given kind. *)
Received(type, len) ==
    /\ event'.kind = "Receive"
    /\ event'.type = type
    /\ event'.len = len

=============================================================================
